---- MODULE Spec2Model ----
(***************************************************************************)
(* The quiz session engine of quiz-app/src/App.vue: the reactive state,    *)
(* the dataset load, the localStorage persistence (restore on mount, the   *)
(* four watchers that save) and the user operations.                       *)
(*                                                                         *)
(* Strings that cross the localStorage boundary are sequences of           *)
(* one-character strings, so that toString / parseInt / JSON.stringify /   *)
(* JSON.parse are computed character by character.                         *)
(*                                                                         *)
(* A number that may be NaN (currentQuestionIndex after parseInt) is a     *)
(* record [nan, n].  Answers is a function from question ids to labels;    *)
(* a property key of the answers object is the decimal text of an id.      *)
(***************************************************************************)
EXTENDS Integers, Sequences, FiniteSets, TLC

(***************************************************************************)
(* Bounds of the model.                                                    *)
(***************************************************************************)
\* the datasets have 0..MaxQuestions questions
MaxQuestions == 2
\* goNext is not taken beyond this index nor goPrevious below its negative
\* (both are unbounded once the index is outside the question list)
MaxIndex == 3
\* Try Again clicks whose fetch has not resolved yet
MaxRetries == 1
\* the number of choices isValidQuestion asks for
RequiredChoices == 4
\* the documents handed to the extractor have 0..MaxSpans question spans
MaxSpans == 2
\* the question lists handed to the results component and to the helpers
\* have 0..MaxListed questions, with ids in 1..MaxListed
MaxListed == 3

\* the labels a selection may carry (two of the four canonical ones)
Labels == {<<"A">>, <<"B">>}

(***************************************************************************)
(* Numbers and their decimal text.                                         *)
(***************************************************************************)
Num(n) == [nan |-> FALSE, n |-> n]
NaN == [nan |-> TRUE, n |-> 0]

Digits == <<"0", "1", "2", "3", "4", "5", "6", "7", "8", "9">>
IsDigit(c) == \E d \in 1..10 : Digits[d] = c
DigitVal(c) == (CHOOSE d \in 1..10 : Digits[d] = c) - 1

RECURSIVE NatToStr(_)
NatToStr(n) ==
  IF n < 10 THEN <<Digits[n + 1]>>
  ELSE NatToStr(n \div 10) \o <<Digits[(n % 10) + 1]>>

\* Number.prototype.toString() of an integer or NaN
NumberToString(v) ==
  IF v.nan THEN <<"N", "a", "N">>
  ELSE IF v.n < 0 THEN <<"-">> \o NatToStr(0 - v.n)
  ELSE NatToStr(v.n)

\* Boolean.prototype.toString()
BooleanToString(b) ==
  IF b THEN <<"t", "r", "u", "e">> ELSE <<"f", "a", "l", "s", "e">>

RECURSIVE SkipWhitespace(_)
SkipWhitespace(s) ==
  IF s # <<>> /\ Head(s) = " " THEN SkipWhitespace(Tail(s)) ELSE s

RECURSIVE DigitPrefix(_)
DigitPrefix(s) ==
  IF s # <<>> /\ IsDigit(Head(s)) THEN <<Head(s)>> \o DigitPrefix(Tail(s))
  ELSE <<>>

RECURSIVE DigitsValue(_)
DigitsValue(d) ==
  IF d = <<>> THEN 0
  ELSE 10 * DigitsValue(SubSeq(d, 1, Len(d) - 1)) + DigitVal(d[Len(d)])

\* parseInt(s, 10): leading whitespace, an optional sign, the longest prefix
\* of digits; NaN when there is no digit
parseInt(s) ==
  LET t == SkipWhitespace(s)
      signed == t # <<>> /\ Head(t) \in {"+", "-"}
      u == IF signed THEN Tail(t) ELSE t
      d == DigitPrefix(u)
  IN IF d = <<>> THEN NaN
     ELSE IF signed /\ Head(t) = "-" THEN Num(0 - DigitsValue(d))
     ELSE Num(DigitsValue(d))

(***************************************************************************)
(* JSON text of the answers object.  The grammar read back is the one the  *)
(* stores of this model hold: null, a number, a string, or an object whose *)
(* keys are decimal ids and whose values are strings (no escapes, no       *)
(* white space); any other text is a SyntaxError.                          *)
(***************************************************************************)
Quote == "\""

\* the keys of an answers object in property order: integer keys ascending
RECURSIVE OwnKeys(_)
OwnKeys(a) ==
  IF DOMAIN a = {} THEN <<>>
  ELSE LET k == CHOOSE x \in DOMAIN a : \A y \in DOMAIN a : x <= y
       IN <<k>> \o OwnKeys([x \in DOMAIN a \ {k} |-> a[x]])

RECURSIVE StringifyMembers(_, _)
StringifyMembers(a, keys) ==
  IF keys = <<>> THEN <<>>
  ELSE <<Quote>> \o NumberToString(Num(Head(keys))) \o <<Quote, ":", Quote>>
       \o a[Head(keys)] \o <<Quote>>
       \o (IF Len(keys) > 1 THEN <<",">> ELSE <<>>)
       \o StringifyMembers(a, Tail(keys))

\* JSON.stringify(answers)
JSONstringify(a) == <<"{">> \o StringifyMembers(a, OwnKeys(a)) \o <<"}">>

JsonFail == [ok |-> FALSE, kind |-> "", members |-> <<>>, str |-> <<>>]
JsonOther(kind) == [ok |-> TRUE, kind |-> kind, members |-> <<>>, str |-> <<>>]
JsonStr(s) == [ok |-> TRUE, kind |-> "str", members |-> <<>>, str |-> s]
JsonObj(ms) == [ok |-> TRUE, kind |-> "obj", members |-> ms, str |-> <<>>]

\* the index of the first Quote of s at or after i, 0 when there is none
RECURSIVE NextQuote(_, _)
NextQuote(s, i) ==
  IF i > Len(s) THEN 0
  ELSE IF s[i] = Quote THEN i
  ELSE NextQuote(s, i + 1)

\* a string literal that starts at s[i]: its text and the index after it
ReadString(s, i) ==
  IF i > Len(s) \/ s[i] # Quote THEN [ok |-> FALSE, val |-> <<>>, next |-> 0]
  ELSE LET j == NextQuote(s, i + 1)
       IN IF j = 0 THEN [ok |-> FALSE, val |-> <<>>, next |-> 0]
          ELSE [ok |-> TRUE, val |-> SubSeq(s, i + 1, j - 1), next |-> j + 1]

IsIdText(t) ==
  /\ t # <<>>
  /\ \A i \in 1..Len(t) : IsDigit(t[i])
  /\ NatToStr(DigitsValue(t)) = t

\* the members of an object from s[i] on, after the opening brace
RECURSIVE ReadMembers(_, _, _)
ReadMembers(s, i, acc) ==
  LET k == ReadString(s, i)
  IN IF ~k.ok \/ ~IsIdText(k.val) \/ k.next > Len(s) \/ s[k.next] # ":"
     THEN JsonFail
     ELSE LET v == ReadString(s, k.next + 1)
              m == Append(acc, [key |-> DigitsValue(k.val), val |-> v.val])
          IN IF ~v.ok \/ v.next > Len(s) THEN JsonFail
             ELSE IF s[v.next] = "}"
               THEN (IF v.next = Len(s) THEN JsonObj(m) ELSE JsonFail)
             ELSE IF s[v.next] = ","
               THEN ReadMembers(s, v.next + 1, m)
             ELSE JsonFail

\* JSON.parse(s); ok = FALSE is the SyntaxError it throws
JSONparse(s) ==
  IF s = <<>> THEN JsonFail
  ELSE IF s = <<"n", "u", "l", "l">> THEN JsonOther("null")
  ELSE IF \A i \in 1..Len(s) : IsDigit(s[i]) THEN JsonOther("num")
  ELSE IF s[1] = Quote THEN
    LET r == ReadString(s, 1)
    IN IF r.ok /\ r.next = Len(s) + 1 THEN JsonStr(r.val) ELSE JsonFail
  ELSE IF s[1] = "{" THEN
    IF s = <<"{", "}">> THEN JsonObj(<<>>) ELSE ReadMembers(s, 2, <<>>)
  ELSE JsonFail

\* target[key] = val on a plain object
SetProperty(a, key, val) ==
  [x \in DOMAIN a \cup {key} |-> IF x = key THEN val ELSE a[x]]

RECURSIVE AssignMembers(_, _)
AssignMembers(a, ms) ==
  IF ms = <<>> THEN a
  ELSE AssignMembers(SetProperty(a, Head(ms).key, Head(ms).val), Tail(ms))

RECURSIVE AssignChars(_, _, _)
AssignChars(a, str, i) ==
  IF i > Len(str) THEN a
  ELSE AssignChars(SetProperty(a, i - 1, <<str[i]>>), str, i + 1)

\* Object.assign(answers, v): the own enumerable properties of v; a string
\* contributes its characters under their indices, null and numbers nothing
ObjectAssign(a, v) ==
  IF v.kind = "obj" THEN AssignMembers(a, v.members)
  ELSE IF v.kind = "str" THEN AssignChars(a, v.str, 1)
  ELSE a

EmptyAnswers == [x \in {} |-> <<>>]

(***************************************************************************)
(* The external store: localStorage, a partial map from keys to strings.   *)
(* getItem of an absent key is null: the key is not in the domain.         *)
(***************************************************************************)
STORAGE_KEY_ANSWERS == "quiz-answers"
STORAGE_KEY_INDEX == "quiz-current-index"
STORAGE_KEY_COMPLETED == "quiz-completed"
STORAGE_KEY_STARTED == "quiz-started"

EmptyStore == [k \in {} |-> <<>>]
HasItem(ls, k) == k \in DOMAIN ls
setItem(ls, k, v) == [x \in DOMAIN ls \cup {k} |-> IF x = k THEN v ELSE ls[x]]
removeItem(ls, k) == [x \in DOMAIN ls \ {k} |-> ls[x]]

(***************************************************************************)
(* The state of the engine.                                                *)
(***************************************************************************)
VARIABLES
  questions,             \* ref<Question[]>: the ids of the loaded questions
  questionsUndefined,    \* questions.value is undefined, not a list
  answers,               \* reactive Answers: id -> label
  currentQuestionIndex,  \* ref(0); a number, NaN included
  quizCompleted,         \* ref(false)
  hasStarted,            \* ref(false)
  isLoading,             \* ref(true)
  error,                 \* ref<string | null>
  localStorage,          \* the external store
  storageWorks,          \* FALSE: every access to the store raises
  mounting,              \* the fetch of onMounted has not resolved yet
  retries,               \* fetches of Try Again that have not resolved yet
  op,                    \* the handler that ran last
  arg,                   \* what it was called with (a load: its response)
  pre,                   \* the persisted fields as that handler found them
  thrown,                \* that handler threw to its caller
  props,                 \* the arguments of a component or helper under test
  shown                  \* what it computed from them

vars == <<questions, questionsUndefined, answers, currentQuestionIndex,
          quizCompleted, hasStarted, isLoading, error, localStorage,
          storageWorks, mounting, retries, op, arg, pre, thrown, props, shown>>

Null == "null"
\* a handler that takes no argument
NoArg == [none |-> TRUE]
\* no value is handed to isValidQuestion
NoCandidate == [shape |-> [kind |-> "none"], value |-> [t |-> "undefined"]]
\* no component or helper is under test
\* no document is handed to the extractor
NoDocument == [spans |-> <<>>, paragraphs |-> <<>>]
NoProps ==
  [kind |-> "none", questions |-> <<>>, answers |-> EmptyAnswers,
   candidate |-> NoCandidate, document |-> NoDocument]
NotCalled == [fn |-> "none"]
LoadErrorMessage == "Failed to load quiz questions. Please try again."

\* the four persisted fields
Mem ==
  [answers |-> answers, currentQuestionIndex |-> currentQuestionIndex,
   quizCompleted |-> quizCompleted, hasStarted |-> hasStarted]

DefaultMem ==
  [answers |-> EmptyAnswers, currentQuestionIndex |-> Num(0),
   quizCompleted |-> FALSE, hasStarted |-> FALSE]

(***************************************************************************)
(* Computed properties.                                                    *)
(***************************************************************************)
\* questions.value[currentQuestionIndex.value] is not undefined
HasCurrentQuestion(qs, idx) == ~idx.nan /\ idx.n >= 0 /\ idx.n < Len(qs)
currentQuestion(qs, idx) == qs[idx.n + 1]
isFirstQuestion(idx) == ~idx.nan /\ idx.n = 0
isLastQuestion(qs, idx) == ~idx.nan /\ idx.n = Len(qs) - 1
answeredCount(a) == Cardinality(DOMAIN a)

\* value++ / value-- on a number: NaN stays NaN
Increment(idx) == IF idx.nan THEN NaN ELSE Num(idx.n + 1)
Decrement(idx) == IF idx.nan THEN NaN ELSE Num(idx.n - 1)

(***************************************************************************)
(* Loading the dataset.                                                    *)
(***************************************************************************)
Dataset(n) == [i \in 1..n |-> i]

\* what the fetch of ./questions.json can come to: no response, a status
\* that is not ok, a body that is not JSON, a JSON object without a
\* questions member, or a JSON object with a list of n questions
Responses ==
  {[kind |-> k, n |-> 0] :
     k \in {"unreachable", "notOk", "unparsable", "noList"}}
  \cup {[kind |-> "ok", n |-> n] : n \in 0..MaxQuestions}

\* loadQuestions once its fetch has resolved with resp: questions.value =
\* data.questions is the only statement after response.json(), so a body
\* without the member stores undefined; the catch block sets the message
loadQuestions(qs, undef, err, resp) ==
  IF resp.kind = "ok"
  THEN [questions |-> Dataset(resp.n), undefined |-> FALSE, error |-> err,
        isLoading |-> FALSE]
  ELSE IF resp.kind = "noList"
  THEN [questions |-> <<>>, undefined |-> TRUE, error |-> err,
        isLoading |-> FALSE]
  ELSE [questions |-> qs, undefined |-> undef, error |-> LoadErrorMessage,
        isLoading |-> FALSE]

(***************************************************************************)
(* Persistence.                                                            *)
(***************************************************************************)
\* loadSavedState: one try block around the four reads and the four
\* restorations; the first exception ends it
loadSavedState(m, ls, works) ==
  IF ~works THEN m
  ELSE
    LET savedAnswers == HasItem(ls, STORAGE_KEY_ANSWERS)
                        /\ ls[STORAGE_KEY_ANSWERS] # <<>>
        parsed == IF savedAnswers THEN JSONparse(ls[STORAGE_KEY_ANSWERS])
                  ELSE JsonOther("null")
        m1 == [m EXCEPT !.answers = ObjectAssign(@, parsed)]
        m2 == IF HasItem(ls, STORAGE_KEY_INDEX)
              THEN [m1 EXCEPT !.currentQuestionIndex =
                                 parseInt(ls[STORAGE_KEY_INDEX])]
              ELSE m1
        m3 == IF HasItem(ls, STORAGE_KEY_COMPLETED)
                 /\ ls[STORAGE_KEY_COMPLETED] = BooleanToString(TRUE)
              THEN [m2 EXCEPT !.quizCompleted = TRUE]
              ELSE m2
        m4 == IF HasItem(ls, STORAGE_KEY_STARTED)
                 /\ ls[STORAGE_KEY_STARTED] = BooleanToString(TRUE)
              THEN [m3 EXCEPT !.hasStarted = TRUE]
              ELSE m3
    IN IF ~parsed.ok THEN m ELSE m4

\* a save that leaves the started flag out
saveWithoutStarted(m, ls, works) ==
  IF ~works THEN ls
  ELSE
    LET s1 == setItem(ls, STORAGE_KEY_ANSWERS, JSONstringify(m.answers))
        s2 == setItem(s1, STORAGE_KEY_INDEX,
                      NumberToString(m.currentQuestionIndex))
    IN setItem(s2, STORAGE_KEY_COMPLETED, BooleanToString(m.quizCompleted))

\* a save that leaves the current index out
saveWithoutIndex(m, ls, works) ==
  IF ~works THEN ls
  ELSE
    LET s1 == setItem(ls, STORAGE_KEY_ANSWERS, JSONstringify(m.answers))
        s3 == setItem(s1, STORAGE_KEY_COMPLETED,
                      BooleanToString(m.quizCompleted))
    IN setItem(s3, STORAGE_KEY_STARTED, BooleanToString(m.hasStarted))

\* saveToLocalStorage: the four setItem calls in one try block
saveToLocalStorage(m, ls, works) ==
  IF ~works THEN ls
  ELSE
    LET s1 == setItem(ls, STORAGE_KEY_ANSWERS, JSONstringify(m.answers))
        s2 == setItem(s1, STORAGE_KEY_INDEX,
                      NumberToString(m.currentQuestionIndex))
        s3 == setItem(s2, STORAGE_KEY_COMPLETED,
                      BooleanToString(m.quizCompleted))
    IN setItem(s3, STORAGE_KEY_STARTED, BooleanToString(m.hasStarted))

\* only the watcher of answers
FlushAnswersWatcher(old, post, ls, works) ==
  IF post.answers # old.answers THEN saveToLocalStorage(post, ls, works)
  ELSE ls

\* the four watchers, flushed once the handler has returned: each runs
\* saveToLocalStorage when its source changed
FlushWatchers(old, post, ls, works) ==
  IF post # old THEN saveToLocalStorage(post, ls, works) ELSE ls

(***************************************************************************)
(* Actions of the script (the functions of App.vue).                       *)
(***************************************************************************)
\* a selection that keeps the entry a question already has
selectAnswerOnce(m, qs, label) ==
  IF HasCurrentQuestion(qs, m.currentQuestionIndex)
     /\ currentQuestion(qs, m.currentQuestionIndex) \notin DOMAIN m.answers
  THEN [m EXCEPT !.answers =
          SetProperty(@, currentQuestion(qs, m.currentQuestionIndex), label)]
  ELSE m

\* a selection that clears the entry when the same label is chosen again
selectAnswerToggle(m, qs, label) ==
  IF HasCurrentQuestion(qs, m.currentQuestionIndex)
  THEN LET id == currentQuestion(qs, m.currentQuestionIndex)
       IN IF id \in DOMAIN m.answers /\ m.answers[id] = label
          THEN [m EXCEPT !.answers = [k \in DOMAIN @ \ {id} |-> @[k]]]
          ELSE [m EXCEPT !.answers = SetProperty(@, id, label)]
  ELSE m

\* a selection filed under the position of the question, not its id
selectAnswerByPosition(m, qs, label) ==
  IF HasCurrentQuestion(qs, m.currentQuestionIndex)
  THEN [m EXCEPT !.answers = SetProperty(@, m.currentQuestionIndex.n, label)]
  ELSE m

\* a selection that moves on to the next question
selectAnswerAndAdvance(m, qs, label) ==
  IF HasCurrentQuestion(qs, m.currentQuestionIndex)
  THEN [m EXCEPT !.answers =
                   SetProperty(@, currentQuestion(qs, m.currentQuestionIndex),
                               label),
                 !.currentQuestionIndex =
                   IF isLastQuestion(qs, @) THEN @ ELSE Increment(@)]
  ELSE m

selectAnswer(m, qs, label) ==
  IF HasCurrentQuestion(qs, m.currentQuestionIndex)
  THEN [m EXCEPT !.answers =
          SetProperty(@, currentQuestion(qs, m.currentQuestionIndex), label)]
  ELSE m

\* a jump that checks only the lower end of the range
goToQuestionUnbounded(m, qs, index) ==
  IF index >= 0
  THEN [m EXCEPT !.currentQuestionIndex = Num(index)]
  ELSE m

goToQuestion(m, qs, index) ==
  IF index >= 0 /\ index < Len(qs)
  THEN [m EXCEPT !.currentQuestionIndex = Num(index)]
  ELSE m

goNext(m, qs) ==
  IF ~isLastQuestion(qs, m.currentQuestionIndex)
  THEN [m EXCEPT !.currentQuestionIndex = Increment(@)]
  ELSE m

goPrevious(m) ==
  IF ~isFirstQuestion(m.currentQuestionIndex)
  THEN [m EXCEPT !.currentQuestionIndex = Decrement(@)]
  ELSE m

\* a submit that toggles the flag instead of setting it
submitQuizToggle(m) == [m EXCEPT !.quizCompleted = ~@]

\* a submit that refuses while nothing is answered
submitQuizIfAnswered(m) ==
  IF m.answers # EmptyAnswers THEN [m EXCEPT !.quizCompleted = TRUE] ELSE m

submitQuiz(m) == [m EXCEPT !.quizCompleted = TRUE]

\* a start that begins with a clean sheet
startQuizFresh(m, qs) ==
  [m EXCEPT !.hasStarted = TRUE, !.quizCompleted = FALSE,
            !.answers = EmptyAnswers, !.currentQuestionIndex = Num(0)]

startQuiz(m, qs) ==
  LET m1 == [m EXCEPT !.hasStarted = TRUE, !.quizCompleted = FALSE]
      idx == m.currentQuestionIndex
  IN IF Len(qs) > 0 /\ ~idx.nan /\ (idx.n < 0 \/ idx.n >= Len(qs))
     THEN [m1 EXCEPT !.currentQuestionIndex = Num(0)]
     ELSE m1

\* Number(key) of a key of Object.keys
NumberOf(s) ==
  IF s # <<>> /\ \A i \in 1..Len(s) : IsDigit(s[i]) THEN Num(DigitsValue(s))
  ELSE NaN

\* Object.keys(answers).forEach((key) => delete answers[Number(key)])
RECURSIVE DeleteKeys(_, _)
DeleteKeys(a, keys) ==
  IF keys = <<>> THEN a
  ELSE LET k == NumberOf(NumberToString(Num(Head(keys))))
       IN DeleteKeys([x \in DOMAIN a \ (IF k.nan THEN {} ELSE {k.n}) |-> a[x]],
                     Tail(keys))

\* a restart that goes back to the intro screen: hasStarted is reset as well
restartQuizToIntro(m, ls, works) ==
  LET m1 == [m EXCEPT !.answers = DeleteKeys(@, OwnKeys(@)),
                      !.currentQuestionIndex = Num(0),
                      !.quizCompleted = FALSE,
                      !.hasStarted = FALSE]
  IN IF ~works THEN [mem |-> m1, store |-> ls, thrown |-> TRUE]
     ELSE [mem |-> m1,
           store |-> removeItem(removeItem(removeItem(ls,
                        STORAGE_KEY_ANSWERS), STORAGE_KEY_INDEX),
                        STORAGE_KEY_COMPLETED),
           thrown |-> FALSE]

\* a restart that removes the started key with the other three
restartQuizAllKeys(m, ls, works) ==
  LET m1 == [m EXCEPT !.answers = DeleteKeys(@, OwnKeys(@)),
                      !.currentQuestionIndex = Num(0),
                      !.quizCompleted = FALSE]
  IN IF ~works THEN [mem |-> m1, store |-> ls, thrown |-> TRUE]
     ELSE [mem |-> m1, store |-> EmptyStore, thrown |-> FALSE]

\* restartQuiz: the state is cleared, then the three keys are removed; the
\* removals are outside any try block
restartQuiz(m, ls, works) ==
  LET m1 == [m EXCEPT !.answers = DeleteKeys(@, OwnKeys(@)),
                      !.currentQuestionIndex = Num(0),
                      !.quizCompleted = FALSE]
  IN IF ~works THEN [mem |-> m1, store |-> ls, thrown |-> TRUE]
     ELSE [mem |-> m1,
           store |-> removeItem(removeItem(removeItem(ls,
                        STORAGE_KEY_ANSWERS), STORAGE_KEY_INDEX),
                        STORAGE_KEY_COMPLETED),
           thrown |-> FALSE]

(***************************************************************************)
(* The template: which screen the v-if chain selects, and which handlers   *)
(* it offers there.                                                        *)
(***************************************************************************)
\* the chain with the quiz screen tested before the results screen
ScreenOfQuizFirst(m, qs, err, loading) ==
  IF loading THEN "loading"
  ELSE IF err # Null THEN "error"
  ELSE IF ~m.quizCompleted /\ ~m.hasStarted /\ Len(qs) # 0 THEN "intro"
  ELSE IF m.hasStarted /\ HasCurrentQuestion(qs, m.currentQuestionIndex)
    THEN "quiz"
  ELSE IF m.quizCompleted THEN "results"
  ELSE "none"

ScreenOf(m, qs, err, loading) ==
  IF loading THEN "loading"
  ELSE IF err # Null THEN "error"
  ELSE IF ~m.quizCompleted /\ ~m.hasStarted /\ Len(qs) # 0 THEN "intro"
  ELSE IF m.quizCompleted THEN "results"
  ELSE IF m.hasStarted /\ HasCurrentQuestion(qs, m.currentQuestionIndex)
    THEN "quiz"
  ELSE "none"

Screen == ScreenOf(Mem, questions, error, isLoading)

(***************************************************************************)
(* What the store may hold when the page is first opened: nothing, what an *)
(* earlier session wrote, or a damaged value.                              *)
(***************************************************************************)
Absent == <<>>
Present(v) == <<v>>

InitialAnswers ==
  {Absent,
   Present(<<"{", Quote, "1", Quote, ":", Quote, "A", Quote, "}">>),
   Present(<<"{", Quote, "1", Quote, ":">>)}
InitialIndex ==
  {Absent, Present(<<"1">>), Present(<<"-", "1">>), Present(<<"x">>)}
InitialFlag == {Absent, Present(BooleanToString(TRUE))}

StoreOf(oa, oi, oc, os) ==
  LET opt == [k \in {STORAGE_KEY_ANSWERS, STORAGE_KEY_INDEX,
                     STORAGE_KEY_COMPLETED, STORAGE_KEY_STARTED} |->
                IF k = STORAGE_KEY_ANSWERS THEN oa
                ELSE IF k = STORAGE_KEY_INDEX THEN oi
                ELSE IF k = STORAGE_KEY_COMPLETED THEN oc
                ELSE os]
  IN [k \in {x \in DOMAIN opt : opt[x] # Absent} |-> opt[k][1]]

InitialStores ==
  {StoreOf(oa, oi, oc, os) :
     oa \in InitialAnswers, oi \in InitialIndex,
     oc \in InitialFlag, os \in InitialFlag}

(***************************************************************************)
(* The results component (components/QuizResults.vue) and the helpers of   *)
(* utils/quiz-helpers.ts: functions of a question list and an answers map. *)
(* A question is a record [id, correctLabel]; a property that may be       *)
(* missing is Absent (undefined) or Present(v), so that === between two    *)
(* such values is equality and undefined === undefined holds.              *)
(***************************************************************************)
\* answers[id]
PropertyOf(a, id) == IF id \in DOMAIN a THEN Present(a[id]) ELSE Absent

\* Math.round(num / den) for num >= 0 and den > 0: halves go up.  (The
\* quotients of the lists modelled here are far from a half wherever the
\* double differs from the fraction.)
MathRound(num, den) == (2 * num + den) \div (2 * den)

\* a count that takes every answered question for a correct one
correctAnswersOfAnswered(p) ==
  Len(SelectSeq(p.questions,
                LAMBDA q : PropertyOf(p.answers, q.id) # Absent))

\* props.questions.filter((q) => props.answers[q.id] === q.correctLabel).length
correctAnswers(p) ==
  Len(SelectSeq(p.questions,
                LAMBDA q : PropertyOf(p.answers, q.id) = q.correctLabel))

totalQuestions(p) == Len(p.questions)

scorePercentage(p) ==
  IF totalQuestions(p) = 0 THEN 0
  ELSE MathRound(correctAnswers(p) * 100, totalQuestions(p))

totalAnswered(p) == Cardinality(DOMAIN p.answers)
isCorrect(p, q) == PropertyOf(p.answers, q.id) = q.correctLabel
isAnswered(p, q) == PropertyOf(p.answers, q.id) # Absent

\* calculateProgress(currentIndex, totalQuestions), on integers
calculateProgressFromIndex(currentIndex, total) ==
  IF total = 0 THEN 0 ELSE MathRound(currentIndex * 100, total)

calculateProgress(currentIndex, total) ==
  IF total = 0 THEN 0 ELSE MathRound((currentIndex + 1) * 100, total)

\* the progress computed of App.vue, from questions and currentQuestionIndex
\* (a number that may be NaN: Math.round(NaN) is NaN)
progress(qs, idx) ==
  IF Len(qs) = 0 THEN Num(0)
  ELSE IF idx.nan THEN NaN
  ELSE Num(MathRound((idx.n + 1) * 100, Len(qs)))

countAnswered(a) == Cardinality(DOMAIN a)

\* a completeness test that wants exactly as many answers as questions
isQuizCompleteExact(a, total) == countAnswered(a) = total

isQuizComplete(a, total) == countAnswered(a) >= total

\* the same map and filter, with positions counted from 1
getUnansweredPositions(qs, a) ==
  LET mapped == [i \in 1..Len(qs) |->
                   IF PropertyOf(a, qs[i].id) = Absent THEN i ELSE -1]
  IN SelectSeq(mapped, LAMBDA index : index # -1)

\* questions.map(...).filter((index) => index !== -1); indices count from 0
getUnansweredQuestions(qs, a) ==
  LET mapped == [i \in 1..Len(qs) |->
                   IF PropertyOf(a, qs[i].id) = Absent THEN i - 1 ELSE -1]
  IN SelectSeq(mapped, LAMBDA index : index # -1)

(***************************************************************************)
(* isValidQuestion(question: unknown).  A JavaScript value is a record     *)
(* tagged with its kind; an object carries its own properties, an array    *)
(* its items.                                                              *)
(***************************************************************************)
JsNull == [t |-> "null"]
JsUndefined == [t |-> "undefined"]
JsNumber(n) == [t |-> "number", n |-> n]
JsString(chars) == [t |-> "string", chars |-> chars]
JsObject(fields) == [t |-> "object", fields |-> fields]
JsArray(items) == [t |-> "array", items |-> items]

\* typeof v: null and arrays are "object"
typeof(v) == IF v.t \in {"null", "object", "array"} THEN "object" ELSE v.t

\* !v is false
Truthy(v) ==
  IF v.t \in {"null", "undefined"} THEN FALSE
  ELSE IF v.t = "number" THEN v.n # 0
  ELSE IF v.t = "string" THEN v.chars # <<>>
  ELSE TRUE

\* v.name, for a v that is neither null nor undefined
Get(v, name) ==
  IF v.t = "object"
  THEN IF name \in DOMAIN v.fields THEN v.fields[name] ELSE JsUndefined
  ELSE IF v.t = "array" /\ name = "length" THEN JsNumber(Len(v.items))
  ELSE IF v.t = "string" /\ name = "length" THEN JsNumber(Len(v.chars))
  ELSE JsUndefined

\* a validation that does not look inside the choices
isValidQuestionShallow(question) ==
  IF ~Truthy(question) \/ typeof(question) # "object" THEN FALSE
  ELSE LET choices == Get(question, "choices")
       IN /\ typeof(Get(question, "id")) = "number"
          /\ typeof(Get(question, "text")) = "string"
          /\ choices.t = "array"
          /\ Get(choices, "length") = JsNumber(RequiredChoices)

isValidQuestion(question) ==
  IF ~Truthy(question) \/ typeof(question) # "object" THEN FALSE
  ELSE LET choices == Get(question, "choices")
       IN /\ typeof(Get(question, "id")) = "number"
          /\ typeof(Get(question, "text")) = "string"
          /\ choices.t = "array"
          /\ Get(choices, "length") = JsNumber(RequiredChoices)
          /\ \A i \in 1..Len(choices.items) :
               LET c == choices.items[i]
               IN /\ Truthy(c)
                  /\ typeof(c) = "object"
                  /\ typeof(Get(c, "label")) = "string"
                  /\ typeof(Get(c, "text")) = "string"

\* The values isValidQuestion is given, each built from a description of
\* its shape: what x is, what its id, text and choices are, how many choices
\* there are, and which one of them (if any) is not a choice and how.
SomeText == JsString(<<"Q">>)
ChoiceOf(how) ==
  IF how = "null" THEN JsNull
  ELSE IF how = "string" THEN JsString(<<"A">>)
  ELSE IF how = "noLabel" THEN JsObject([text |-> SomeText])
  ELSE IF how = "noText" THEN JsObject([label |-> JsString(<<"A">>)])
  ELSE IF how = "numericLabel"
    THEN JsObject([label |-> JsNumber(1), text |-> SomeText])
  ELSE JsObject([label |-> JsString(<<"A">>), text |-> SomeText])

ChoicesOf(sh) ==
  IF sh.choices = "array"
  THEN JsArray([i \in 1..sh.count |->
                  IF i = sh.bad THEN ChoiceOf(sh.how) ELSE ChoiceOf("choice")])
  ELSE IF sh.choices = "string" THEN JsString(<<"A", "B", "C", "D">>)
  ELSE JsObject([length |-> JsNumber(RequiredChoices)])

ValueOf(sh) ==
  IF sh.kind = "null" THEN JsNull
  ELSE IF sh.kind = "undefined" THEN JsUndefined
  ELSE IF sh.kind = "number" THEN JsNumber(1)
  ELSE IF sh.kind = "string" THEN SomeText
  ELSE IF sh.kind = "array" THEN JsArray(<<>>)
  ELSE LET names == {n \in {"id", "text", "choices"} : sh[n] # "missing"}
       IN JsObject([n \in names |->
                      IF n = "id"
                      THEN (IF sh.id = "number" THEN JsNumber(1)
                            ELSE JsString(<<"1">>))
                      ELSE IF n = "text"
                      THEN (IF sh.text = "string" THEN SomeText
                            ELSE JsNumber(1))
                      ELSE ChoicesOf(sh)])

ObjectShapes ==
  {[kind |-> "object", id |-> i, text |-> t, choices |-> c,
    count |-> n, bad |-> b, how |-> h] :
     i \in {"number", "string", "missing"},
     t \in {"string", "number", "missing"},
     c \in {"array", "string", "arrayLike", "missing"},
     n \in 0..(RequiredChoices + 1),
     b \in {0}, h \in {"none"}}
  \cup
  {[kind |-> "object", id |-> "number", text |-> "string",
    choices |-> "array", count |-> RequiredChoices, bad |-> b, how |-> h] :
     b \in 1..RequiredChoices,
     h \in {"null", "string", "noLabel", "noText", "numericLabel"}}

Shapes ==
  {sh \in ObjectShapes : sh.choices # "array" => sh.count = 0}
  \cup {[kind |-> k] : k \in {"null", "undefined", "number", "string", "array"}}

Candidates == {[shape |-> sh, value |-> ValueOf(sh)] : sh \in Shapes}

(***************************************************************************)
(* The extractor (parser/parse_docx.py), which is not among the sources:   *)
(* modelled from its specification.  A document is its paragraph stream;   *)
(* a paragraph is a question marker, a labelled choice (with or without    *)
(* text), a whitespace-only paragraph or other body text.                  *)
(***************************************************************************)
CanonicalLabels == <<"A", "B", "C", "D">>

QuestionParagraph == [kind |-> "question", label |-> "", hasText |-> TRUE]
ChoiceParagraph(l, t) == [kind |-> "choice", label |-> l, hasText |-> t]
BlankParagraph == [kind |-> "blank", label |-> "", hasText |-> FALSE]
BodyParagraph == [kind |-> "body", label |-> "", hasText |-> TRUE]

\* step 2 and 3: the linear scan; acc is the sequence of question records
\* accumulated so far, each the sequence of its choice paragraphs
RECURSIVE Scan(_, _)
Scan(paragraphs, acc) ==
  IF paragraphs = <<>> THEN acc
  ELSE LET par == Head(paragraphs)
           rest == Tail(paragraphs)
       IN IF par.kind = "question" THEN Scan(rest, Append(acc, <<>>))
          ELSE IF par.kind = "choice" /\ acc # <<>>
            THEN Scan(rest, [acc EXCEPT ![Len(acc)] = Append(@, par)])
          ELSE Scan(rest, acc)

\* step 4: exactly the four canonical labels in canonical order, each with
\* non-empty text
ValidQuestionSpan(choices) ==
  /\ Len(choices) = Len(CanonicalLabels)
  /\ \A i \in 1..Len(choices) :
       choices[i].label = CanonicalLabels[i] /\ choices[i].hasText

\* an emission that numbers the questions from 0
EmitFromZero(acc) ==
  [i \in 1..Len(acc) |->
     [id |-> i - 1, labels |-> [k \in 1..Len(acc[i]) |-> acc[i][k].label]]]

\* step 5: id = 1-based ordinal position, in document order
Emit(acc) ==
  [i \in 1..Len(acc) |->
     [id |-> i, labels |-> [k \in 1..Len(acc[i]) |-> acc[i][k].label]]]

\* a lenient extraction: the questions that fail validation are left out
ExtractLenient(paragraphs) ==
  LET acc == Scan(paragraphs, <<>>)
  IN [ok |-> TRUE, failed |-> 0, written |-> TRUE,
      questions |-> Emit(SelectSeq(acc, ValidQuestionSpan))]

\* the whole run: scan, validate (the first question that fails halts the
\* run and nothing is written), number, write
Extract(paragraphs) ==
  LET acc == Scan(paragraphs, <<>>)
      invalid == {i \in 1..Len(acc) : ~ValidQuestionSpan(acc[i])}
  IN IF invalid # {}
     THEN [ok |-> FALSE,
           failed |-> CHOOSE i \in invalid : \A j \in invalid : i <= j,
           written |-> FALSE, questions |-> <<>>]
     ELSE [ok |-> TRUE, failed |-> 0, written |-> TRUE,
           questions |-> Emit(acc)]

\* The documents: each question span is written after one of these
\* patterns, which says what follows the question marker and whether that
\* is what the format asks for.
Choices(labels, empty) ==
  [i \in 1..Len(labels) |-> ChoiceParagraph(labels[i], i # empty)]

SpanPatterns ==
  {[valid |-> TRUE, body |-> Choices(CanonicalLabels, 0)],
   [valid |-> TRUE,
    body |-> <<BlankParagraph>> \o Choices(<<"A", "B">>, 0)
             \o <<BlankParagraph, BodyParagraph>> \o
             [i \in 1..2 |-> ChoiceParagraph(CanonicalLabels[i + 2], TRUE)]],
   [valid |-> FALSE, body |-> Choices(<<"A", "B", "D">>, 0)],
   [valid |-> FALSE, body |-> Choices(<<"A", "B", "C">>, 0)],
   [valid |-> FALSE, body |-> Choices(<<"A", "B", "C", "D", "A">>, 0)],
   [valid |-> FALSE, body |-> Choices(<<"A", "B", "C", "C">>, 0)],
   [valid |-> FALSE, body |-> Choices(<<"A", "B", "D", "C">>, 0)],
   [valid |-> FALSE, body |-> Choices(CanonicalLabels, 2)],
   [valid |-> FALSE, body |-> <<BlankParagraph>>]}

RECURSIVE ParagraphsOf(_)
ParagraphsOf(spans) ==
  IF spans = <<>> THEN <<>>
  ELSE <<QuestionParagraph>> \o Head(spans).body \o ParagraphsOf(Tail(spans))

\* every document starts with a title and a stray choice-like paragraph
\* that belongs to no question
Documents ==
  {[spans |-> sp,
    paragraphs |-> <<BodyParagraph, ChoiceParagraph("A", TRUE)>>
                   \o ParagraphsOf(sp)] :
     sp \in UNION {[1..n -> SpanPatterns] : n \in 0..MaxSpans}}

\* the lists of a dataset: ids 1..n in order, each question with or without
\* a correctLabel
ScoredLists ==
  UNION {{[i \in 1..n |-> [id |-> i, correctLabel |-> f[i]]] :
            f \in [1..n -> {Absent} \cup {Present(l) : l \in Labels}]} :
         n \in 0..MaxListed}

\* the lists a caller of the helpers may pass: any ids, repeated ones
\* included, no correctLabel
PlainLists ==
  UNION {{[i \in 1..n |-> [id |-> f[i], correctLabel |-> Absent]] :
            f \in [1..n -> 1..MaxListed]} :
         n \in 0..MaxListed}

\* the answers maps: some ids, each with a label
AnswerMaps == UNION {[ids -> Labels] : ids \in SUBSET (1..MaxListed)}

(***************************************************************************)
(* The state machine.  The seven operations of the script are taken in any *)
(* state once onMounted has run: they are plain functions, and what the    *)
(* template offers where is ScreenOf.  loadQuestions has two callers only, *)
(* onMounted and the Try Again button of the error screen.                 *)
(***************************************************************************)
\* the page is opened: the refs hold their initial values and onMounted has
\* called loadQuestions, whose fetch is outstanding
PageOpened ==
  /\ questions = <<>>
  /\ questionsUndefined = FALSE
  /\ answers = EmptyAnswers
  /\ currentQuestionIndex = Num(0)
  /\ quizCompleted = FALSE
  /\ hasStarted = FALSE
  /\ isLoading = TRUE
  /\ error = Null
  /\ mounting = TRUE
  /\ retries = 0
  /\ arg = NoArg
  /\ pre = DefaultMem
  /\ thrown = FALSE

Init ==
  /\ PageOpened
  /\ op = "open"
  /\ props = NoProps
  /\ shown = NotCalled
  /\ storageWorks \in BOOLEAN
  /\ localStorage \in (IF storageWorks THEN InitialStores ELSE {EmptyStore})

\* a handler has set the persisted fields to post and left the store as ls;
\* the watchers are flushed before anything else runs
Commit(name, post, ls, thr) ==
  /\ answers' = post.answers
  /\ currentQuestionIndex' = post.currentQuestionIndex
  /\ quizCompleted' = post.quizCompleted
  /\ hasStarted' = post.hasStarted
  /\ localStorage' = FlushWatchers(Mem, post, ls, storageWorks)
  /\ op' = name
  /\ pre' = Mem
  /\ thrown' = thr

\* onMounted once the fetch has resolved: the rest of loadQuestions, then
\* loadSavedState
Mounted ==
  /\ mounting
  /\ \E resp \in Responses :
       LET l == loadQuestions(questions, questionsUndefined, error, resp)
       IN /\ questions' = l.questions
          /\ questionsUndefined' = l.undefined
          /\ error' = l.error
          /\ isLoading' = l.isLoading
          /\ arg' = resp
  /\ mounting' = FALSE
  /\ Commit("onMounted", loadSavedState(Mem, localStorage, storageWorks),
            localStorage, FALSE)
  /\ UNCHANGED <<storageWorks, retries, props, shown>>

\* Try Again on the error screen calls loadQuestions: a fetch goes out
TryAgain ==
  /\ ~mounting
  /\ Screen = "error"
  /\ retries < MaxRetries
  /\ retries' = retries + 1
  /\ op' = "tryAgain"
  /\ arg' = NoArg
  /\ pre' = Mem
  /\ thrown' = FALSE
  /\ UNCHANGED <<questions, questionsUndefined, answers,
                 currentQuestionIndex, quizCompleted, hasStarted, isLoading,
                 error, localStorage, storageWorks, mounting, props, shown>>

\* the fetch of a Try Again resolves: the rest of loadQuestions
Retried ==
  /\ retries > 0
  /\ \E resp \in Responses :
       LET l == loadQuestions(questions, questionsUndefined, error, resp)
       IN /\ questions' = l.questions
          /\ questionsUndefined' = l.undefined
          /\ error' = l.error
          /\ isLoading' = l.isLoading
          /\ arg' = resp
          /\ op' = IF resp.kind \in {"ok", "noList"} THEN "retryLoaded"
                   ELSE "retryFailed"
  /\ retries' = retries - 1
  /\ pre' = Mem
  /\ thrown' = FALSE
  /\ UNCHANGED <<answers, currentQuestionIndex, quizCompleted, hasStarted,
                 localStorage, storageWorks, mounting, props, shown>>

Frame == UNCHANGED <<questions, questionsUndefined, isLoading, error,
                     storageWorks, mounting, retries, props, shown>>

\* While questions.value is undefined, a handler that reads its length or
\* one of its elements raises TypeError at that statement and ends there.

\* the indices goToQuestion is called with: one below the list, those of the
\* largest list, one past it and one far past every list
GoToIndices == (-1..MaxQuestions) \cup {MaxQuestions + 3}

SelectAnswer ==
  /\ ~mounting
  /\ \E label \in Labels :
       /\ IF questionsUndefined
          THEN Commit("selectAnswer", Mem, localStorage, TRUE)
          ELSE Commit("selectAnswer", selectAnswer(Mem, questions, label),
                      localStorage, FALSE)
       /\ arg' = [label |-> label]
  /\ Frame

GoToQuestionAt(index) ==
  /\ ~mounting
  /\ IF questionsUndefined /\ index >= 0
     THEN Commit("goToQuestion", Mem, localStorage, TRUE)
     ELSE Commit("goToQuestion", goToQuestion(Mem, questions, index),
                 localStorage, FALSE)
  /\ arg' = [index |-> index]
  /\ Frame

GoToQuestion == \E index \in GoToIndices : GoToQuestionAt(index)

GoNext ==
  /\ ~mounting
  /\ currentQuestionIndex.n < MaxIndex
  /\ IF questionsUndefined
     THEN Commit("goNext", Mem, localStorage, TRUE)
     ELSE Commit("goNext", goNext(Mem, questions), localStorage, FALSE)
  /\ arg' = NoArg
  /\ Frame

GoPrevious ==
  /\ ~mounting
  /\ currentQuestionIndex.n > 0 - MaxIndex
  /\ Commit("goPrevious", goPrevious(Mem), localStorage, FALSE)
  /\ arg' = NoArg
  /\ Frame

SubmitQuiz ==
  /\ ~mounting
  /\ Commit("submitQuiz", submitQuiz(Mem), localStorage, FALSE)
  /\ arg' = NoArg
  /\ Frame

StartQuiz ==
  /\ ~mounting
  /\ IF questionsUndefined
     THEN Commit("startQuiz",
                 [Mem EXCEPT !.hasStarted = TRUE, !.quizCompleted = FALSE],
                 localStorage, TRUE)
     ELSE Commit("startQuiz", startQuiz(Mem, questions), localStorage, FALSE)
  /\ arg' = NoArg
  /\ Frame

RestartQuiz ==
  /\ ~mounting
  /\ LET r == restartQuiz(Mem, localStorage, storageWorks)
     IN Commit("restartQuiz", r.mem, r.store, r.thrown)
  /\ arg' = NoArg
  /\ Frame

\* the page is reloaded: a new instance of the component over the same store
Reload ==
  /\ ~mounting
  /\ questions' = <<>>
  /\ questionsUndefined' = FALSE
  /\ answers' = EmptyAnswers
  /\ currentQuestionIndex' = Num(0)
  /\ quizCompleted' = FALSE
  /\ hasStarted' = FALSE
  /\ isLoading' = TRUE
  /\ error' = Null
  /\ mounting' = TRUE
  /\ retries' = 0
  /\ arg' = NoArg
  /\ pre' = DefaultMem
  /\ thrown' = FALSE
  /\ op' = "reload"
  /\ UNCHANGED <<localStorage, storageWorks, props, shown>>

Next ==
  \/ Mounted
  \/ TryAgain
  \/ Retried
  \/ SelectAnswer
  \/ GoToQuestion
  \/ GoNext
  \/ GoPrevious
  \/ SubmitQuiz
  \/ StartQuiz
  \/ RestartQuiz
  \/ Reload

Spec == Init /\ [][Next]_vars

\* the same machine over a store that is empty when the page is first
\* opened and accepts every access
InitEmptyStore == Init /\ storageWorks /\ localStorage = EmptyStore

SpecEmptyStore == InitEmptyStore /\ [][Next]_vars

(***************************************************************************)
(* The same machine driven through the template only: each handler is      *)
(* taken where the screen that is shown offers it, with the arguments the  *)
(* template passes.                                                        *)
(***************************************************************************)
\* intro screen: the Start button
ClickStart == Screen = "intro" /\ StartQuiz

\* quiz screen: a choice of the current question
ClickChoice == Screen = "quiz" /\ SelectAnswer

\* quiz screen: one navigation dot per question, v-for index
ClickDot ==
  /\ Screen = "quiz"
  /\ \E index \in 0..(Len(questions) - 1) : GoToQuestionAt(index)

\* quiz screen: Previous is disabled on the first question
ClickPrevious ==
  /\ Screen = "quiz"
  /\ ~isFirstQuestion(currentQuestionIndex)
  /\ GoPrevious

\* quiz screen: Next is rendered unless the question is the last one
ClickNext ==
  /\ Screen = "quiz"
  /\ ~isLastQuestion(questions, currentQuestionIndex)
  /\ GoNext

\* quiz screen: Submit replaces Next on the last question and is disabled
\* while answeredCount < questions.length
ClickSubmit ==
  /\ Screen = "quiz"
  /\ isLastQuestion(questions, currentQuestionIndex)
  /\ ~(answeredCount(answers) < Len(questions))
  /\ SubmitQuiz

\* results screen: the restart event of QuizResults
ClickRestart == Screen = "results" /\ RestartQuiz

NextUI ==
  \/ Mounted
  \/ TryAgain
  \/ Retried
  \/ ClickStart
  \/ ClickChoice
  \/ ClickDot
  \/ ClickPrevious
  \/ ClickNext
  \/ ClickSubmit
  \/ ClickRestart
  \/ Reload

\* from a store that is empty when the page is first opened
InitUI == Init /\ localStorage = EmptyStore

SpecUI == InitUI /\ [][NextUI]_vars

(***************************************************************************)
(* The results component and the helpers on their own: the arguments are   *)
(* drawn at the start, each action evaluates one of them and records what  *)
(* it returned.  The engine stays as the page opened it.                   *)
(***************************************************************************)
engineVars == <<questions, questionsUndefined, answers, currentQuestionIndex,
                quizCompleted, hasStarted, isLoading, error, localStorage,
                storageWorks, mounting, retries, op, arg, pre, thrown>>

InitPure ==
  /\ PageOpened
  /\ op = "open"
  /\ storageWorks = TRUE
  /\ localStorage = EmptyStore
  /\ props \in
       {[NoProps EXCEPT !.kind = "lists", !.questions = qs, !.answers = a] :
          qs \in ScoredLists \cup PlainLists, a \in AnswerMaps}
       \cup {[NoProps EXCEPT !.kind = "candidate", !.candidate = c] :
               c \in Candidates}
       \cup {[NoProps EXCEPT !.kind = "document", !.document = d] :
               d \in Documents}
  /\ shown = NotCalled

\* QuizResults is rendered with props: the computed properties of its script
\* and the class the template gives each question of the review (correct,
\* incorrect or unanswered)
RenderResults ==
  /\ props.kind = "lists"
  /\ shown' =
       [fn |-> "QuizResults",
        correctAnswers |-> correctAnswers(props),
        totalQuestions |-> totalQuestions(props),
        scorePercentage |-> scorePercentage(props),
        totalAnswered |-> totalAnswered(props),
        correct |-> {i \in 1..Len(props.questions) :
                       /\ isAnswered(props, props.questions[i])
                       /\ isCorrect(props, props.questions[i])},
        incorrect |-> {i \in 1..Len(props.questions) :
                         /\ isAnswered(props, props.questions[i])
                         /\ ~isCorrect(props, props.questions[i])},
        unanswered |-> {i \in 1..Len(props.questions) :
                          ~isAnswered(props, props.questions[i])}]
  /\ UNCHANGED <<props, engineVars>>

GetUnansweredQuestions ==
  /\ props.kind = "lists"
  /\ shown' =
       [fn |-> "getUnansweredQuestions",
        result |-> getUnansweredQuestions(props.questions, props.answers)]
  /\ UNCHANGED <<props, engineVars>>

\* isQuizComplete(answers, questions.length)
IsQuizComplete ==
  /\ props.kind = "lists"
  /\ shown' =
       [fn |-> "isQuizComplete",
        result |-> isQuizComplete(props.answers, Len(props.questions))]
  /\ UNCHANGED <<props, engineVars>>

\* calculateProgress(i, questions.length) for every index i below MaxListed,
\* next to what the progress computed of App.vue gives at the same index
CalculateProgress ==
  /\ props.kind = "lists"
  /\ shown' =
       [fn |-> "calculateProgress",
        result |-> [k \in 1..MaxListed |->
                      calculateProgress(k - 1, Len(props.questions))],
        app |-> [k \in 1..MaxListed |->
                   progress(props.questions, Num(k - 1))]]
  /\ UNCHANGED <<props, engineVars>>

IsValidQuestion ==
  /\ props.kind = "candidate"
  /\ shown' = [fn |-> "isValidQuestion",
               result |-> isValidQuestion(props.candidate.value)]
  /\ UNCHANGED <<props, engineVars>>

\* the extraction tool is run on the document
ExtractDocument ==
  /\ props.kind = "document"
  /\ shown' = [fn |-> "extract"] @@ Extract(props.document.paragraphs)
  /\ UNCHANGED <<props, engineVars>>

NextPure ==
  \/ ExtractDocument
  \/ IsValidQuestion
  \/ RenderResults
  \/ GetUnansweredQuestions
  \/ IsQuizComplete
  \/ CalculateProgress

SpecPure == InitPure /\ [][NextPure]_vars

TypeOK ==
  /\ \A k \in DOMAIN answers : k \in Nat
  /\ currentQuestionIndex.nan \in BOOLEAN
  /\ quizCompleted \in BOOLEAN /\ hasStarted \in BOOLEAN
  /\ retries \in 0..MaxRetries

(***************************************************************************)
(* Properties.                                                             *)
(***************************************************************************)
NavigationOps == {"selectAnswer", "goToQuestion", "goNext", "goPrevious"}
EngineOps == NavigationOps \cup {"submitQuiz", "startQuiz", "restartQuiz"}
InProgress(m) == m.hasStarted /\ ~m.quizCompleted

\* C1: a load error is recoverable by retry: a failed load leaves the error
\* message set and isLoading false, and a retry that succeeds leaves the
\* error state (error is null again) with the loaded questions exposed.
C1_RetryRecovers ==
  /\ op = "retryFailed" => (error = LoadErrorMessage /\ ~isLoading)
  /\ op = "retryLoaded" => (error = Null /\ ~isLoading)

\* what a stored value restores to when it is valid, taken key by key
StoredAnswers(ls) ==
  IF HasItem(ls, STORAGE_KEY_ANSWERS)
     /\ JSONparse(ls[STORAGE_KEY_ANSWERS]).kind = "obj"
  THEN ObjectAssign(EmptyAnswers, JSONparse(ls[STORAGE_KEY_ANSWERS]))
  ELSE EmptyAnswers
StoredIndex(ls) ==
  IF HasItem(ls, STORAGE_KEY_INDEX) /\ ~parseInt(ls[STORAGE_KEY_INDEX]).nan
  THEN parseInt(ls[STORAGE_KEY_INDEX])
  ELSE Num(0)
StoredFlag(ls, k) == HasItem(ls, k) /\ ls[k] = BooleanToString(TRUE)

\* C2: restoreSession restores each of the four keys independently: a
\* missing or corrupt value under one key leaves that field at its default
\* and the other three fields are restored from their valid stored values;
\* it never throws.
C2_IndependentRestore ==
  [][(op' = "onMounted" /\ storageWorks) =>
        /\ ~thrown'
        /\ answers' = StoredAnswers(localStorage)
        /\ currentQuestionIndex' = StoredIndex(localStorage)
        /\ quizCompleted' = StoredFlag(localStorage, STORAGE_KEY_COMPLETED)
        /\ hasStarted' = StoredFlag(localStorage, STORAGE_KEY_STARTED)]_vars

\* C3: whenever the question list is non-empty, currentIndex is an integer
\* with 0 <= currentIndex <= len(questions) - 1.
C3_IndexInRange ==
  Len(questions) > 0 =>
    (/\ ~currentQuestionIndex.nan
     /\ currentQuestionIndex.n >= 0
     /\ currentQuestionIndex.n <= Len(questions) - 1)

\* the position next to idx by d, when the list has one
Neighbour(idx, d, qs) ==
  IF ~idx.nan /\ idx.n + d >= 0 /\ idx.n + d <= Len(qs) - 1
  THEN Num(idx.n + d)
  ELSE idx

\* C4: next() and previous() move currentIndex by exactly one when the
\* neighbouring position exists and are no-ops otherwise, for every dataset
\* size, the empty one included: next() never passes len(questions) - 1,
\* previous() never goes below 0.
C4_NextPreviousClamped ==
  /\ op = "goNext" =>
       currentQuestionIndex = Neighbour(pre.currentQuestionIndex, 1, questions)
  /\ op = "goPrevious" =>
       currentQuestionIndex = Neighbour(pre.currentQuestionIndex, -1, questions)

\* C5: once restart() has completed, the persistence writes it triggers
\* included, the store holds no entry under the answers, current-index and
\* completed keys, and the entry under the started key is as it was.
C5_RestartErasesKeys ==
  [][(op' = "restartQuiz" /\ storageWorks) =>
        /\ DOMAIN localStorage' \cap
             {STORAGE_KEY_ANSWERS, STORAGE_KEY_INDEX, STORAGE_KEY_COMPLETED} = {}
        /\ HasItem(localStorage', STORAGE_KEY_STARTED)
             = HasItem(localStorage, STORAGE_KEY_STARTED)
        /\ HasItem(localStorage, STORAGE_KEY_STARTED) =>
             localStorage'[STORAGE_KEY_STARTED] = localStorage[STORAGE_KEY_STARTED]
     ]_vars

\* C6: restart() invoked with completed = true, whatever Answers and
\* currentIndex were, leaves Answers empty, currentIndex = 0, completed =
\* false and hasStarted as it was; in a Completed session (hasStarted true)
\* the session is therefore InProgress afterwards, not NotStarted.
C6_RestartAfterCompletion ==
  (op = "restartQuiz" /\ pre.quizCompleted) =>
    /\ answers = EmptyAnswers
    /\ currentQuestionIndex = Num(0)
    /\ ~quizCompleted
    /\ hasStarted = pre.hasStarted
    /\ pre.hasStarted => InProgress(Mem)

C6_Witness ==
  /\ op = "restartQuiz"
  /\ pre.quizCompleted /\ pre.hasStarted
  /\ Cardinality(DOMAIN pre.answers) = 2
  /\ pre.currentQuestionIndex = Num(1)
  /\ answers = EmptyAnswers

\* C7: persistence round-trips: in every state reached from an empty store
\* that accepts writes, a fresh engine (default state) that restores from the
\* store's current content has the Answers, currentIndex, completed and
\* hasStarted of the running engine.
C7_RoundTrip ==
  ~mounting => loadSavedState(DefaultMem, localStorage, TRUE) = Mem

C7_Witness ==
  /\ ~mounting
  /\ op = "submitQuiz"
  /\ Cardinality(DOMAIN answers) = 2
  /\ currentQuestionIndex = Num(1)
  /\ quizCompleted /\ hasStarted
  /\ loadSavedState(DefaultMem, localStorage, TRUE) = Mem

\* C8: storage failures are contained: when every access to the store
\* raises, no engine operation (restoreSession included) propagates the
\* failure to its caller.
C8_StorageFailuresContained ==
  (~storageWorks /\ op \in EngineOps \cup {"onMounted"}) => ~thrown

\* C9 (as stated): from a state with completed = true, none of start, submit,
\* selectAnswer, goTo, next, previous makes completed false; restart() is the
\* only operation after which completed is false again.
C9_CompletedLeftOnlyByRestart ==
  (op \in EngineOps /\ pre.quizCompleted /\ ~quizCompleted) =>
    op = "restartQuiz"

\* C9 (amended): from a state with completed = true, none of submit,
\* selectAnswer, goTo, next, previous makes completed false; the operations
\* after which completed is false again are restart() and start().
C9_CompletedLeftByRestartOrStart ==
  (op \in EngineOps /\ pre.quizCompleted /\ ~quizCompleted) =>
    op \in {"restartQuiz", "startQuiz"}

C9_Witness ==
  /\ op = "selectAnswer"
  /\ pre.quizCompleted
  /\ answers # pre.answers
  /\ quizCompleted

\* C10 (as stated): selectAnswer, goTo, next and previous invoked in
\* NotStarted or in Completed leave Answers and currentIndex unchanged.
C10_NoEffectOutsideInProgress ==
  (op \in NavigationOps /\ ~InProgress(pre)) =>
    (answers = pre.answers
     /\ currentQuestionIndex = pre.currentQuestionIndex)

\* C10 (amended): selectAnswer, goTo, next and previous invoked from the
\* screen that offers them (the quiz screen of the template) run while the
\* session is InProgress; the functions themselves carry no such guard.
C10_OfferedOnlyInProgress ==
  (op \in NavigationOps
   /\ ScreenOf(pre, questions, error, isLoading) = "quiz") =>
    InProgress(pre)

C10_Witness ==
  /\ op = "goNext"
  /\ ScreenOf(pre, questions, error, isLoading) = "quiz"
  /\ InProgress(pre)
  /\ currentQuestionIndex # pre.currentQuestionIndex

LoadOps == {"onMounted", "retryLoaded", "retryFailed"}

\* C11: for every dataset response that is unreachable or malformed (no
\* response, a status that is not ok, a body that is not JSON, or JSON that
\* carries no questions list), the load ends in the error state with the
\* message set, throws nothing, ends with isLoading false and leaves the
\* exposed question list a list.
C11_MalformedLoadEndsInError ==
  (op \in LoadOps /\ arg.kind # "ok") =>
    /\ error = LoadErrorMessage
    /\ ~thrown
    /\ ~isLoading
    /\ ~questionsUndefined

\* the loads whose fetch has not resolved yet
LoadsInFlight == (IF mounting THEN 1 ELSE 0) + retries

\* C12: whenever a load is outstanding (the initial one or a retry) the
\* engine is in the loading state, isLoading = true, so that neither a second
\* load nor a session operation can be started before it resolves: at most
\* one load is in flight.
C12_LoadingWhileOutstanding ==
  /\ LoadsInFlight > 0 => isLoading
  /\ LoadsInFlight <= 1

\* C13: goTo(index) sets currentIndex to index when 0 <= index <
\* len(questions); otherwise it leaves currentIndex and every other field
\* unchanged and raises no error.  On a 1-question list goTo(5) leaves
\* currentIndex at 0; on an empty list every goTo is a no-op.
C13_GoToInRangeOnly ==
  [][(op' = "goToQuestion" /\ ~questionsUndefined) =>
       /\ ~thrown'
       /\ currentQuestionIndex' =
            IF 0 <= arg'.index /\ arg'.index < Len(questions)
            THEN Num(arg'.index)
            ELSE currentQuestionIndex
       /\ UNCHANGED <<answers, quizCompleted, hasStarted, questions,
                      questionsUndefined, isLoading, error>>
     ]_vars

C13_Witness ==
  /\ op = "goToQuestion"
  /\ ~questionsUndefined /\ Len(questions) = 1
  /\ arg.index >= 5
  /\ pre.currentQuestionIndex = Num(0)
  /\ currentQuestionIndex = Num(0)
  /\ ~thrown

\* the id of the question at position idx of qs, as a set: empty when no
\* question is there
CurrentIds(qs, idx) ==
  IF ~idx.nan /\ 0 <= idx.n /\ idx.n < Len(qs) THEN {qs[idx.n + 1]} ELSE {}

\* C14: selectAnswer(label) with a current question q leaves Answers[q.id] =
\* label, replacing an earlier entry for q.id, and the entries of the other
\* ids as they were; with no current question (empty list, or an index
\* outside the list) it leaves Answers unchanged and raises no error.
C14_SelectRecordsAnswer ==
  (op = "selectAnswer" /\ ~questionsUndefined) =>
    LET ids == CurrentIds(questions, pre.currentQuestionIndex)
    IN /\ ~thrown
       /\ DOMAIN answers = DOMAIN pre.answers \cup ids
       /\ \A id \in ids : answers[id] = arg.label
       /\ \A id \in DOMAIN pre.answers \ ids : answers[id] = pre.answers[id]

C14_Witness ==
  /\ op = "selectAnswer"
  /\ ~questionsUndefined
  /\ \E id \in CurrentIds(questions, pre.currentQuestionIndex) :
       /\ id \in DOMAIN pre.answers
       /\ pre.answers[id] # arg.label
       /\ answers[id] = arg.label
       /\ \E other \in DOMAIN pre.answers \ {id} :
            answers[other] = pre.answers[other]

\* the value the store holds under key k, if any
Persisted(ls, k) == IF HasItem(ls, k) THEN Present(ls[k]) ELSE Absent

\* C15: selectAnswer is idempotent: a second call with the same label right
\* after the first, for the same current question, leaves Answers and the
\* persisted answers value as the first call left them.
C15_SelectAnswerIdempotent ==
  [][(op = "selectAnswer" /\ op' = "selectAnswer" /\ arg' = arg) =>
       /\ answers' = answers
       /\ Persisted(localStorage', STORAGE_KEY_ANSWERS)
            = Persisted(localStorage, STORAGE_KEY_ANSWERS)
     ]_vars

C15_Witness ==
  /\ op = "selectAnswer"
  /\ ~questionsUndefined /\ storageWorks
  /\ pre.answers = answers
  /\ \E id \in CurrentIds(questions, currentQuestionIndex) :
       /\ id \in DOMAIN answers
       /\ answers[id] = arg.label
  /\ Persisted(localStorage, STORAGE_KEY_ANSWERS)
       = Present(JSONstringify(answers))

C17_SubmitAlwaysCompletes ==
  op = "submitQuiz" =>
    /\ quizCompleted
    /\ ~thrown
    /\ answers = pre.answers
    /\ currentQuestionIndex = pre.currentQuestionIndex
    /\ hasStarted = pre.hasStarted

C17_Witness ==
  /\ op = "submitQuiz"
  /\ Len(questions) = 2
  /\ pre.answers = EmptyAnswers
  /\ ~pre.quizCompleted
  /\ quizCompleted

\* every question of the list carries a correctLabel / none does
AllCarryCorrectLabel(qs) == \A i \in 1..Len(qs) : qs[i].correctLabel # Absent
NoneCarriesCorrectLabel(qs) == \A i \in 1..Len(qs) : qs[i].correctLabel = Absent

\* C18: for every list whose questions all carry a correctLabel and every
\* Answers map, the correct count is the number of questions q with
\* Answers[q.id] = q.correctLabel (an unanswered question is not correct) and
\* the percentage is round(correct / total * 100), 0 for an empty list.
C18_ScoreCountsMatches ==
  (shown.fn = "QuizResults" /\ AllCarryCorrectLabel(props.questions)) =>
    LET qs == props.questions
        a == props.answers
        right == {i \in 1..Len(qs) :
                    /\ qs[i].id \in DOMAIN a
                    /\ qs[i].correctLabel = Present(a[qs[i].id])}
        c == Cardinality(right)
        t == Len(qs)
        pc == shown.scorePercentage
    IN /\ shown.correctAnswers = c
       /\ t = 0 => pc = 0
       /\ t > 0 => (2 * t * pc <= 200 * c + t /\ 200 * c + t < 2 * t * (pc + 1))

\* three questions: the first answered right, the second wrong, the third
\* not answered
C18_Witness ==
  /\ shown.fn = "QuizResults"
  /\ AllCarryCorrectLabel(props.questions)
  /\ Len(props.questions) = 3
  /\ DOMAIN props.answers = {1, 2}
  /\ props.questions[1].correctLabel = Present(props.answers[1])
  /\ props.questions[2].correctLabel # Present(props.answers[2])
  /\ shown.correctAnswers = 1
  /\ shown.scorePercentage = 33

\* C19: when no question of the list carries a correctLabel the results are
\* review-only: no question, answered or not, is counted as correct (neither
\* in the count the score is derived from nor in the review).
C19_ReviewOnlyWithoutCorrectLabel ==
  (shown.fn = "QuizResults" /\ NoneCarriesCorrectLabel(props.questions)) =>
    /\ shown.correctAnswers = 0
    /\ shown.correct = {}

\* C20: for every list with unique ids and every Answers map whose keys are
\* all ids of the list, getUnansweredQuestions returns exactly the indices
\* (from 0) of the questions without an entry, strictly ascending, and their
\* number is len(questions) - countAnswered(answers).
C20_UnansweredIndices ==
  LET qs == props.questions
      a == props.answers
      ids == {qs[i].id : i \in 1..Len(qs)}
  IN (/\ shown.fn = "getUnansweredQuestions"
      /\ Cardinality(ids) = Len(qs)
      /\ DOMAIN a \subseteq ids) =>
       LET r == shown.result
       IN /\ {r[k] : k \in 1..Len(r)}
               = {i - 1 : i \in {j \in 1..Len(qs) : qs[j].id \notin DOMAIN a}}
          /\ \A k \in 1..(Len(r) - 1) : r[k] < r[k + 1]
          /\ Len(r) = Len(qs) - countAnswered(a)

C20_Witness ==
  /\ shown.fn = "getUnansweredQuestions"
  /\ Len(props.questions) = 3
  /\ {props.questions[i].id : i \in 1..3} = {1, 2, 3}
  /\ props.questions[2].id = 3
  /\ DOMAIN props.answers = {1, 2}
  /\ shown.result = <<1>>

\* C21: for every Answers map and every n >= 0, isQuizComplete(answers, n) is
\* true exactly when the number of distinct keys of answers is at least n: it
\* is true for n = 0 with any answers and false for empty answers with n > 0.
C21_CompleteIffEnoughKeys ==
  shown.fn = "isQuizComplete" =>
    LET keys == DOMAIN props.answers
        n == Len(props.questions)
    IN /\ shown.result = (\E picked \in SUBSET keys : Cardinality(picked) = n)
       /\ n = 0 => shown.result
       /\ (keys = {} /\ n > 0) => ~shown.result

C21_Witness ==
  /\ shown.fn = "isQuizComplete"
  /\ Len(props.questions) = 2
  /\ Cardinality(DOMAIN props.answers) = 3
  /\ shown.result

\* C22: for n >= 1 and 0 <= i <= n - 1, calculateProgress(i, n) is
\* round((i + 1) / n * 100), does not decrease with i for fixed n and is 100
\* at i = n - 1; calculateProgress(i, 0) = 0; and the progress App.vue derives
\* from currentIndex and len(questions) is the same function.
C22_ProgressRoundedShare ==
  shown.fn = "calculateProgress" =>
    LET n == Len(props.questions)
        r == shown.result
    IN /\ \A k \in 1..MaxListed : shown.app[k] = Num(r[k])
       /\ n = 0 => \A k \in 1..MaxListed : r[k] = 0
       /\ \A k \in 1..n :
            /\ 2 * n * r[k] <= 200 * k + n
            /\ 200 * k + n < 2 * n * (r[k] + 1)
            /\ k > 1 => r[k - 1] <= r[k]
       /\ n > 0 => r[n] = 100

C22_Witness ==
  /\ shown.fn = "calculateProgress"
  /\ Len(props.questions) = 3
  /\ shown.result[1] = 33 /\ shown.result[2] = 67 /\ shown.result[3] = 100
  /\ shown.app[2] = Num(67)

\* C23: isValidQuestion(x) is true exactly when x is an object with a numeric
\* id, a string text and a choices array of exactly 4 elements, each an
\* object with a string label and a string text; it is false for null,
\* undefined, a missing id, a missing text, any other number of choices and
\* any choice lacking label or text.
C23_ValidQuestionShape ==
  shown.fn = "isValidQuestion" =>
    LET sh == props.candidate.shape
    IN shown.result =
         (/\ sh.kind = "object"
          /\ sh.id = "number"
          /\ sh.text = "string"
          /\ sh.choices = "array"
          /\ sh.count = 4
          /\ sh.bad = 0)

\* four choices of which the third has no text
C23_Witness ==
  /\ shown.fn = "isValidQuestion"
  /\ props.candidate.shape.kind = "object"
  /\ props.candidate.shape.id = "number"
  /\ props.candidate.shape.text = "string"
  /\ props.candidate.shape.choices = "array"
  /\ props.candidate.shape.count = 4
  /\ props.candidate.shape.bad = 3
  /\ props.candidate.shape.how = "noText"
  /\ ~shown.result

\* the operations that write without destroying
WriteOps == {"selectAnswer", "goToQuestion", "goNext", "goPrevious",
             "startQuiz", "submitQuiz"}

\* C24: whenever selectAnswer, goTo, next, previous, start or submit changes
\* Answers, currentIndex, completed or hasStarted, the store entry of the
\* changed field holds that field's new full value before the next operation
\* runs (given a store that accepts writes).
C24_ChangesArePersisted ==
  (op \in WriteOps /\ storageWorks) =>
    /\ answers # pre.answers =>
         Persisted(localStorage, STORAGE_KEY_ANSWERS)
           = Present(JSONstringify(answers))
    /\ currentQuestionIndex # pre.currentQuestionIndex =>
         Persisted(localStorage, STORAGE_KEY_INDEX)
           = Present(NumberToString(currentQuestionIndex))
    /\ quizCompleted # pre.quizCompleted =>
         Persisted(localStorage, STORAGE_KEY_COMPLETED)
           = Present(BooleanToString(quizCompleted))
    /\ hasStarted # pre.hasStarted =>
         Persisted(localStorage, STORAGE_KEY_STARTED)
           = Present(BooleanToString(hasStarted))

C24_Witness ==
  /\ op = "goNext"
  /\ storageWorks
  /\ pre.currentQuestionIndex = Num(0)
  /\ currentQuestionIndex = Num(1)
  /\ localStorage[STORAGE_KEY_INDEX] = <<"1">>
  /\ answers # EmptyAnswers
  /\ localStorage[STORAGE_KEY_ANSWERS] = JSONstringify(answers)

\* C25: restart() is the only operation that destroys data: none of
\* selectAnswer, goTo, next, previous, start and submit removes an entry from
\* Answers or a key from the store, so the set of answered ids only grows
\* between two restarts.
C25_OnlyRestartDestroys ==
  [][op' \in WriteOps =>
       /\ DOMAIN answers \subseteq DOMAIN answers'
       /\ DOMAIN localStorage \subseteq DOMAIN localStorage'
    ]_vars

C25_Witness ==
  /\ op = "startQuiz"
  /\ pre.quizCompleted
  /\ Cardinality(DOMAIN pre.answers) = 2
  /\ answers = pre.answers
  /\ DOMAIN localStorage = {STORAGE_KEY_ANSWERS, STORAGE_KEY_INDEX,
                            STORAGE_KEY_COMPLETED, STORAGE_KEY_STARTED}

\* the spans of the document that are not what the format asks for
MalformedSpans(doc) == {i \in 1..Len(doc.spans) : ~doc.spans[i].valid}

\* C26: extraction is all-or-nothing: for every document in which at least
\* one question span is not exactly the four canonical labels in canonical
\* order, each with non-empty text, extraction fails with an error that
\* identifies the offending question and writes no output, not even for the
\* valid questions before it.
C26_AllOrNothing ==
  (shown.fn = "extract" /\ MalformedSpans(props.document) # {}) =>
    /\ ~shown.ok
    /\ ~shown.written
    /\ shown.questions = <<>>
    /\ shown.failed \in MalformedSpans(props.document)
    /\ \A i \in MalformedSpans(props.document) : shown.failed <= i

\* a valid first question, a second one with choices A, B, D
C26_Witness ==
  /\ shown.fn = "extract"
  /\ Len(props.document.spans) = 2
  /\ props.document.spans[1].valid
  /\ props.document.spans[2].body = Choices(<<"A", "B", "D">>, 0)
  /\ ~shown.ok /\ ~shown.written
  /\ shown.failed = 2

\* C27: for every structurally valid document the emitted questions carry
\* ids 1..n in document order without gaps or duplicates, and every emitted
\* question has exactly 4 choices whose labels are the four canonical labels
\* in canonical order.
C27_IdsInDocumentOrder ==
  (shown.fn = "extract" /\ MalformedSpans(props.document) = {}) =>
    /\ shown.ok /\ shown.written
    /\ Len(shown.questions) = Len(props.document.spans)
    /\ \A i \in 1..Len(shown.questions) :
         /\ shown.questions[i].id = i
         /\ shown.questions[i].labels = <<"A", "B", "C", "D">>

C27_Witness ==
  /\ shown.fn = "extract"
  /\ Len(props.document.spans) = 2
  /\ MalformedSpans(props.document) = {}
  /\ props.document.spans[1] # props.document.spans[2]
  /\ shown.written
  /\ shown.questions[2].id = 2

\* C28: the submit gate guarantees full coverage: in every reachable state,
\* states restored from a store written under another dataset included, if
\* answeredCount >= len(questions) (the condition under which Submit is
\* enabled) then every question of the loaded dataset has an entry in
\* Answers, that is, no index is unanswered.
C28_SubmitGateCoversAll ==
  (~mounting /\ ~questionsUndefined
   /\ answeredCount(answers) >= Len(questions)) =>
    \A i \in 1..Len(questions) : questions[i] \in DOMAIN answers

\* C29: once the load has resolved, in every reachable state exactly one of
\* the error, intro, results and quiz screens is selected, for every dataset
\* size (zero questions included) and every restored currentIndex, hasStarted
\* and completed: there is no state in which no screen is selected.
C29_ExactlyOneScreen ==
  (~mounting /\ ~questionsUndefined) =>
    Screen \in {"error", "intro", "results", "quiz"}

\* C30: starting from an empty store and driving the engine only through the
\* operations as the template offers them (start on the intro screen,
\* selectAnswer, goTo, next, previous and submit on the quiz screen, restart
\* on the results screen), with page reloads at any point, completed = true
\* implies hasStarted = true in every reachable state.
C30_CompletedImpliesStarted == quizCompleted => hasStarted

\* a completed session restored by a reload
C30_Witness ==
  /\ op = "onMounted"
  /\ storageWorks
  /\ quizCompleted /\ hasStarted
  /\ Cardinality(DOMAIN answers) = 2
  /\ Screen = "results"

\* C31: hasStarted is monotone: no engine operation sets hasStarted from
\* true to false, and, restart leaving the started key in place, once
\* start() has run over a store that accepts writes every later instance of
\* the page has hasStarted = true as soon as it is mounted, whatever
\* operations and reloads come between, so the intro screen is not shown
\* again.
C31_StartedIsMonotone ==
  /\ [][(hasStarted /\ op' \in EngineOps) => hasStarted']_vars
  /\ []((op = "startQuiz" /\ storageWorks) =>
          [](Screen # "intro" /\ (~mounting => hasStarted)))

C31_Witness ==
  /\ op = "onMounted"
  /\ storageWorks
  /\ hasStarted
  /\ ~quizCompleted
  /\ answers = EmptyAnswers
  /\ localStorage[STORAGE_KEY_ANSWERS] = JSONstringify(EmptyAnswers)
  /\ localStorage[STORAGE_KEY_STARTED] = BooleanToString(TRUE)
  /\ Screen = "quiz"

\* C32: navigation and selection do not interfere: goToQuestion, goNext and
\* goPrevious leave Answers, completed and hasStarted as they were, and
\* selectAnswer leaves currentIndex, completed and hasStarted as they were,
\* in every state, those where the handler returns early or throws included.
C32_NavigationAndSelectionApart ==
  /\ op \in {"goToQuestion", "goNext", "goPrevious"} =>
       /\ answers = pre.answers
       /\ quizCompleted = pre.quizCompleted
       /\ hasStarted = pre.hasStarted
  /\ op = "selectAnswer" =>
       /\ currentQuestionIndex = pre.currentQuestionIndex
       /\ quizCompleted = pre.quizCompleted
       /\ hasStarted = pre.hasStarted

C32_Witness ==
  /\ op = "selectAnswer"
  /\ ~thrown
  /\ Len(questions) = 2
  /\ currentQuestionIndex = Num(0)
  /\ answers # pre.answers
  /\ 2 \in DOMAIN answers
  /\ quizCompleted
  /\ hasStarted

\* the last handler was selectAnswer(label) and the question with this id
\* was the current one
SelectedFor(id, label) ==
  /\ op = "selectAnswer"
  /\ ~thrown
  /\ arg.label = label
  /\ id \in CurrentIds(questions, currentQuestionIndex)

\* C33: starting from an empty store, after any sequence of engine
\* operations (and reloads) over a loaded dataset, every key of Answers is
\* the id of a question of that dataset, and every value is a label that
\* was passed to selectAnswer while the question with that id was current:
\* as long as no load has delivered another dataset the keys stay among its
\* ids, and as long as a label has not been selected for a question, Answers
\* does not hold that label for it.
C33_AnswersComeFromSelections ==
  /\ \A n \in 0..MaxQuestions :
       [](questions \in {<<>>, Dataset(n)}) =>
         [](DOMAIN answers \subseteq {Dataset(n)[i] : i \in 1..n})
  /\ [](\A id \in DOMAIN answers : answers[id] \in Labels)
  /\ \A id \in 1..MaxQuestions : \A label \in Labels :
       [](~SelectedFor(id, label)) =>
         [](id \in DOMAIN answers => answers[id] # label)

C33_Witness ==
  /\ op = "onMounted"
  /\ questions = Dataset(2)
  /\ DOMAIN answers = {1, 2}
  /\ answers[1] = <<"B">>
  /\ answers[2] = <<"A">>
  /\ currentQuestionIndex = Num(1)

====
